---- MODULE Spec2Model ----
(***************************************************************************)
(* State-machine model of the AppiumKeywords keyword library               *)
(* (src/appium_vision/keywords.py).                                        *)
(*                                                                         *)
(* One library instance is modelled.  Its attributes are the variables     *)
(* drivers, screen_proc, device_video_path and device_id; the remote       *)
(* Appium sessions, the spawned adb processes and the wall clock are the   *)
(* environment (sessions, procs, now), and so is screen: what OCR and      *)
(* template matching find in a screenshot of the device.  Every keyword    *)
(* is one action; the variable call records the keyword that ran last:     *)
(* its arguments, what the environment handed it, the ordered effects it   *)
(* had on the registry, the driver and external processes, and how it      *)
(* ended.  start_called is history: whether start_screen_recording was    *)
(* ever called on the instance.                                            *)
(*                                                                         *)
(* Text is a sequence of one-character strings, so that str.strip() and    *)
(* str.split() are computed rather than assumed.  Match scores and         *)
(* thresholds are thousandths (0.85 is 850).  Coordinates read from JSON   *)
(* are tenths (100 is 1000), so that int() is a truncation.                *)
(***************************************************************************)
EXTENDS Integers, Sequences, FiniteSets, TLC

VARIABLES drivers, sessions, screen_proc, device_video_path, device_id,
          procs, now, screen, start_called, call

vars == <<drivers, sessions, screen_proc, device_video_path, device_id,
          procs, now, screen, start_called, call>>

(***************************************************************************)
(* Bounds of the model.                                                    *)
(***************************************************************************)
\* Appium sessions ever created (webdriver.Remote calls that succeeded).
MaxSessions == 3
\* adb screenrecord processes ever spawned.
MaxProcs == 2
\* Seconds the wall clock advances.
MaxTime == 1
\* Entries of one OCR result.
MaxOcr == 2

(***************************************************************************)
(* Python helpers.                                                         *)
(***************************************************************************)
\* str.isspace() of one character.
IsSpace(c) == c \in {" ", "\t", "\n"}

RECURSIVE LStrip(_)
\* str.lstrip(): drop leading whitespace.
LStrip(s) == IF s = <<>> THEN <<>>
             ELSE IF IsSpace(Head(s)) THEN LStrip(Tail(s)) ELSE s

RECURSIVE RStrip(_)
\* str.rstrip(): drop trailing whitespace.
RStrip(s) == IF s = <<>> THEN <<>>
             ELSE IF IsSpace(s[Len(s)]) THEN RStrip(SubSeq(s, 1, Len(s) - 1))
             ELSE s

\* str.strip().
Strip(s) == RStrip(LStrip(s))

RECURSIVE SplitFrom(_, _, _)
\* str.split() with no separator: maximal runs of non-whitespace, in order.
\* cur is the token being read, acc the tokens read so far.
SplitFrom(s, cur, acc) ==
    IF s = <<>> THEN (IF cur = <<>> THEN acc ELSE Append(acc, cur))
    ELSE IF IsSpace(Head(s))
         THEN SplitFrom(Tail(s), <<>>, IF cur = <<>> THEN acc ELSE Append(acc, cur))
         ELSE SplitFrom(Tail(s), Append(cur, Head(s)), acc)

Split(s) == SplitFrom(s, <<>>, <<>>)

\* int() of a number held in tenths: truncation toward zero.
PyInt(t) == IF t >= 0 THEN t \div 10 ELSE -((-t) \div 10)

\* int(a + b / 2) for integers a and b: truncation toward zero of a + b/2.
PyIntHalf(a, b) == LET n == 2 * a + b
                   IN  IF n >= 0 THEN n \div 2 ELSE -((-n) \div 2)

\* An instance attribute that was never assigned is the empty sequence;
\* reading it raises AttributeError.  An assigned one is <<value>>.
Unset == <<>>
IsSet(attr) == attr # <<>>
Value(attr) == attr[1]

(***************************************************************************)
(* Configuration (configurations.ini), read once by __init__.              *)
(***************************************************************************)
\* Logical DUT names keywords are called with.
DutNames == {"Phone", "Main", "Ghost"}

\* The section name get_device_id builds: f"DUT.{dut_name}".
Section(dut_name) == <<"DUT", dut_name>>

\* The sections of the parsed file and their keys (self.config).
config == [s \in {<<"DUT", "Phone">>, <<"DUT", "Main">>} |->
             IF s = <<"DUT", "Phone">>
             THEN [device_id |-> <<"emulator-5554">>]
             ELSE [device_id |-> <<"emulator-5556">>]]

\* get_device_id with a fallback for an unknown section, as config.get with
\* a default would give.
get_device_id_fallback(dut_name) ==
    IF Section(dut_name) \notin DOMAIN config
    THEN [ok |-> TRUE, err |-> "", caps |-> [device_id |-> <<>>]]
    ELSE [ok |-> TRUE, err |-> "", caps |-> config[Section(dut_name)]]

\* get_device_id: the section, or the failure when it is absent.
get_device_id(dut_name) ==
    IF Section(dut_name) \notin DOMAIN config
    THEN [ok |-> FALSE, err |-> "ConfigNotFound", caps |-> [device_id |-> <<>>]]
    ELSE [ok |-> TRUE, err |-> "", caps |-> config[Section(dut_name)]]

(***************************************************************************)
(* Session registry: self.drivers, a dict in insertion order, as a         *)
(* sequence of [name, sid]; sid indexes sessions, the sessions ever opened *)
(* on the Appium server, each "live" or "quit".                            *)
(***************************************************************************)
InCache(drv, dut_name) == \E i \in DOMAIN drv : drv[i].name = dut_name

CachedSid(drv, dut_name) ==
    drv[CHOOSE i \in DOMAIN drv : drv[i].name = dut_name].sid

\* A driver call on a session: the server rejects a session that was quit.
DriverUp(sess, sid) == sess[sid].state = "live"

\* start_appium_session without the cache test of its first two lines: a
\* driver is opened on every call and stored under the name.
start_appium_session_no_cache(drv, sess, dut_name, connOk) ==
    LET hit  == [e |-> "registry", dut |-> dut_name]
        conf == [e |-> "config", dut |-> dut_name]
        conn == [e |-> "connect", dut |-> dut_name]
        caps == get_device_id(dut_name)
        sid  == Len(sess) + 1
    IN  IF ~caps.ok
        THEN [ok |-> FALSE, err |-> caps.err, sid |-> 0,
              drivers |-> drv, sessions |-> sess, log |-> <<hit, conf>>]
        ELSE IF ~connOk
        THEN [ok |-> FALSE, err |-> "DriverError", sid |-> 0,
              drivers |-> drv, sessions |-> sess, log |-> <<hit, conf, conn>>]
        ELSE [ok |-> TRUE, err |-> "", sid |-> sid,
              drivers |-> IF InCache(drv, dut_name)
                          THEN [i \in DOMAIN drv |->
                                  IF drv[i].name = dut_name
                                  THEN [name |-> dut_name, sid |-> sid] ELSE drv[i]]
                          ELSE Append(drv, [name |-> dut_name, sid |-> sid]),
              sessions |-> Append(sess, [name |-> dut_name, state |-> "live"]),
              log |-> <<hit, conf, conn>>]

\* start_appium_session as the keywords call it: the cache and the sessions
\* after the call, the session returned, and the effects in order.
\* connOk: whether webdriver.Remote succeeds, should it be called.
start_appium_session(drv, sess, dut_name, connOk) ==
    LET hit  == [e |-> "registry", dut |-> dut_name]
        conf == [e |-> "config", dut |-> dut_name]
        conn == [e |-> "connect", dut |-> dut_name]
        caps == get_device_id(dut_name)
        sid  == Len(sess) + 1
    IN  IF InCache(drv, dut_name)
        THEN [ok |-> TRUE, err |-> "", sid |-> CachedSid(drv, dut_name),
              drivers |-> drv, sessions |-> sess, log |-> <<hit>>]
        ELSE IF ~caps.ok
        THEN [ok |-> FALSE, err |-> caps.err, sid |-> 0,
              drivers |-> drv, sessions |-> sess, log |-> <<hit, conf>>]
        ELSE IF ~connOk
        THEN [ok |-> FALSE, err |-> "DriverError", sid |-> 0,
              drivers |-> drv, sessions |-> sess, log |-> <<hit, conf, conn>>]
        ELSE [ok |-> TRUE, err |-> "", sid |-> sid,
              drivers |-> Append(drv, [name |-> dut_name, sid |-> sid]),
              sessions |-> Append(sess, [name |-> dut_name, state |-> "live"]),
              log |-> <<hit, conf, conn>>]

\* The test runner is between two keywords: the last keyword's result has
\* been consumed and the next keyword has not been called.
Idle == [kw |-> "idle", dut |-> <<>>, in |-> <<>>, log |-> <<>>,
         ok |-> TRUE, err |-> "", ret |-> <<>>]

\* The model opens at most MaxSessions sessions.
CanAcquire(dut_name, connOk) ==
    start_appium_session(drivers, sessions, dut_name, connOk).sid <= MaxSessions

RecordingUnchanged ==
    UNCHANGED <<screen_proc, device_video_path, device_id, procs, now, screen,
                start_called>>

\* Keyword Start Appium Session.
StartAppiumSession ==
    \E dut_name \in DutNames, connOk \in BOOLEAN :
        LET r == start_appium_session(drivers, sessions, dut_name, connOk)
        IN  /\ call = Idle
            /\ CanAcquire(dut_name, connOk)
            /\ drivers' = r.drivers
            /\ sessions' = r.sessions
            /\ call' = [kw |-> "start_appium_session", dut |-> <<dut_name>>,
                        in |-> <<>>, log |-> r.log, ok |-> r.ok, err |-> r.err,
                        ret |-> IF r.ok THEN <<r.sid>> ELSE <<>>]
            /\ RecordingUnchanged

\* The quit events of the first k cached drivers, in dict order.
QuitLog(drv, k) == [i \in 1..k |-> [e |-> "quit", sid |-> drv[i].sid]]

\* The sessions after driver.quit() returned for the first k cached drivers.
AfterQuits(drv, sess, k) ==
    [s \in DOMAIN sess |->
        IF \E i \in 1..k : drv[i].sid = s
        THEN [sess[s] EXCEPT !.state = "quit"] ELSE sess[s]]

\* stop_appium_session without its last line, self.drivers.clear().
stop_appium_session_no_clear(drv, sess, failAt, ended) ==
    IF failAt = 0
    THEN [ok |-> TRUE, err |-> "", drivers |-> drv,
          sessions |-> AfterQuits(drv, sess, Len(drv)),
          log |-> QuitLog(drv, Len(drv))]
    ELSE [ok |-> FALSE, err |-> "DriverError", drivers |-> drv,
          sessions |-> AfterQuits(drv, sess, IF ended THEN failAt ELSE failAt - 1),
          log |-> QuitLog(drv, failAt)]

\* stop_appium_session with each quit in a try/finally that goes on with the
\* remaining drivers and clears the dict before the failure is re-raised.
stop_appium_session_isolating(drv, sess, failAt, ended) ==
    IF failAt = 0
    THEN [ok |-> TRUE, err |-> "", drivers |-> <<>>,
          sessions |-> AfterQuits(drv, sess, Len(drv)),
          log |-> QuitLog(drv, Len(drv))]
    ELSE [ok |-> FALSE, err |-> "DriverError", drivers |-> <<>>,
          sessions |-> [s \in DOMAIN sess |->
                          IF s = drv[failAt].sid /\ ~ended THEN sess[s]
                          ELSE AfterQuits(drv, sess, Len(drv))[s]],
          log |-> QuitLog(drv, Len(drv))]

\* Keyword Stop Appium Session: quit every cached driver in dict order, then
\* clear the dict.  failAt = 0: every quit returns.  failAt = k: the k-th
\* quit raises, which ends the loop and the keyword; ended tells whether
\* the server closed that session all the same.
stop_appium_session(drv, sess, failAt, ended) ==
    IF failAt = 0
    THEN [ok |-> TRUE, err |-> "", drivers |-> <<>>,
          sessions |-> AfterQuits(drv, sess, Len(drv)),
          log |-> QuitLog(drv, Len(drv))]
    ELSE [ok |-> FALSE, err |-> "DriverError", drivers |-> drv,
          sessions |-> AfterQuits(drv, sess, IF ended THEN failAt ELSE failAt - 1),
          log |-> QuitLog(drv, failAt)]

StopAppiumSession ==
    \E failAt \in 0..Len(drivers), ended \in BOOLEAN :
        LET r == stop_appium_session(drivers, sessions, failAt, ended)
        IN  /\ call = Idle
            /\ (failAt = 0 => ~ended)
            /\ drivers' = r.drivers
            /\ sessions' = r.sessions
            /\ call' = [kw |-> "stop_appium_session", dut |-> <<>>,
                        in |-> <<failAt>>, log |-> r.log, ok |-> r.ok,
                        err |-> r.err, ret |-> <<>>]
            /\ RecordingUnchanged

(***************************************************************************)
(* Capability dispatcher.  Every keyword below starts with                 *)
(* driver = self.start_appium_session(dut_name); a is that call's outcome. *)
(* A keyword body yields [ok, err, log, ret]: how it ended, its effects    *)
(* after the acquisition, and its return value.                            *)
(***************************************************************************)
\* The acquisition raised: the keyword ends with that exception.
Raised(a) == [ok |-> FALSE, err |-> a.err, log |-> <<>>, ret |-> <<>>]

\* A driver call on a session the server no longer knows raises.
DriverDown == [ok |-> FALSE, err |-> "DriverError", log |-> <<>>, ret |-> <<>>]

\* The record of a keyword whose effects came before it asked the registry
\* for its session.
CallOf_late(kw, dut_name, in, a, r) ==
    [kw |-> kw, dut |-> <<dut_name>>, in |-> in, log |-> r.log \o a.log,
     ok |-> r.ok, err |-> r.err, ret |-> r.ret]

\* The record of a keyword that took a DUT name.
CallOf(kw, dut_name, in, a, r) ==
    [kw |-> kw, dut |-> <<dut_name>>, in |-> in, log |-> a.log \o r.log,
     ok |-> r.ok, err |-> r.err, ret |-> r.ret]

\* What every session-acquiring keyword does to the instance.
Dispatch(kw, dut_name, connOk, in, a, r) ==
    /\ call = Idle
    /\ CanAcquire(dut_name, connOk)
    /\ drivers' = a.drivers
    /\ sessions' = a.sessions
    /\ call' = CallOf(kw, dut_name, in, a, r)
    /\ RecordingUnchanged

\* Texts on screen, in OCR output and in arguments.
Texts == {<<>>, <<"A">>, <<" ", "A", "\n">>, <<"B">>}

\* ---- verify_text_appium_full -------------------------------------------
\* [el.text.strip() for el in elements if el.text.strip()]
VisibleTexts(elements) ==
    LET stripped == [i \in DOMAIN elements |-> Strip(elements[i])]
    IN  SelectSeq(stripped, LAMBDA t : t # <<>>)

verify_text_appium_full(a, sess, expected_text, elements) ==
    IF ~a.ok THEN Raised(a)
    ELSE IF ~DriverUp(sess, a.sid) THEN DriverDown
    ELSE LET found == \E i \in DOMAIN VisibleTexts(elements) :
                          VisibleTexts(elements)[i] = expected_text
         IN  [ok |-> found, err |-> IF found THEN "" ELSE "NotFound",
              log |-> <<[e |-> "find_elements", sid |-> a.sid]>>,
              ret |-> IF found THEN <<TRUE>> ELSE <<>>]

\* The element texts the driver may report.
ElementLists == {<<>>} \cup {<<t>> : t \in Texts}
                       \cup {<<t, u>> : t \in {<<"B">>}, u \in Texts}

VerifyTextAppiumFull ==
    \E dut_name \in DutNames, connOk \in BOOLEAN,
       expected_text \in {<<"A">>, <<" ", "A", "\n">>}, elements \in ElementLists :
        LET a == start_appium_session(drivers, sessions, dut_name, connOk)
            r == verify_text_appium_full(a, a.sessions, expected_text, elements)
        IN  Dispatch("verify_text_appium_full", dut_name, connOk,
                     [expected_text |-> expected_text, elements |-> elements], a, r)

\* ---- tap_by_coordinates ------------------------------------------------
\* ${EXECDIR}/Resources/Coordinates: the files there and their JSON content
\* (numbers in tenths).
CoordFiles ==
    [f \in {"home.json"} |->
        [k \in {"login_button", "back", "broken"} |->
            IF k = "login_button" THEN [x |-> 1000, y |-> 2000]
            ELSE IF k = "back" THEN [x |-> 150, y |-> 70]
            ELSE [x |-> 10]]]

\* tap_by_coordinates with data.get(key_name, {"x": 0, "y": 0}) in place of
\* the key test.
tap_by_coordinates_default(a, sess, json_name, key_name) ==
    IF ~a.ok THEN Raised(a)
    ELSE IF json_name \notin DOMAIN CoordFiles
    THEN [ok |-> FALSE, err |-> "FileNotFound", log |-> <<>>, ret |-> <<>>]
    ELSE LET data  == CoordFiles[json_name]
             entry == IF key_name \in DOMAIN data THEN data[key_name]
                      ELSE [x |-> 0, y |-> 0]
         IN  IF ~({"x", "y"} \subseteq DOMAIN entry)
             THEN [ok |-> FALSE, err |-> "KeyError", log |-> <<>>, ret |-> <<>>]
             ELSE IF ~DriverUp(sess, a.sid) THEN DriverDown
             ELSE [ok |-> TRUE, err |-> "",
                   log |-> <<[e |-> "tap", sid |-> a.sid, x |-> PyInt(entry.x),
                              y |-> PyInt(entry.y)]>>,
                   ret |-> <<<<PyInt(entry.x), PyInt(entry.y)>>>>]

tap_by_coordinates(a, sess, json_name, key_name) ==
    IF ~a.ok THEN Raised(a)
    ELSE IF json_name \notin DOMAIN CoordFiles
    THEN [ok |-> FALSE, err |-> "FileNotFound", log |-> <<>>, ret |-> <<>>]
    ELSE LET data == CoordFiles[json_name]
         IN  IF key_name \notin DOMAIN data
             THEN [ok |-> FALSE, err |-> "KeyNotFound", log |-> <<>>, ret |-> <<>>]
             ELSE IF ~({"x", "y"} \subseteq DOMAIN data[key_name])
             THEN [ok |-> FALSE, err |-> "KeyError", log |-> <<>>, ret |-> <<>>]
             ELSE IF ~DriverUp(sess, a.sid) THEN DriverDown
             ELSE LET x == PyInt(data[key_name].x)
                      y == PyInt(data[key_name].y)
                  IN  [ok |-> TRUE, err |-> "",
                       log |-> <<[e |-> "tap", sid |-> a.sid, x |-> x, y |-> y]>>,
                       ret |-> <<<<x, y>>>>]

TapByCoordinates ==
    \E dut_name \in DutNames, connOk \in BOOLEAN,
       json_name \in {"home.json", "away.json"},
       key_name \in {"login_button", "back", "broken", "absent"} :
        LET a == start_appium_session(drivers, sessions, dut_name, connOk)
            r == tap_by_coordinates(a, a.sessions, json_name, key_name)
        IN  Dispatch("tap_by_coordinates", dut_name, connOk,
                     [json_name |-> json_name, key_name |-> key_name], a, r)

\* ---- tap_by_text -------------------------------------------------------
\* The index of the last OCR entry, at or after i, whose stripped text is
\* the target (a loop without the return); 0 when there is none.
RECURSIVE LastMatch(_, _, _)
LastMatch(ocr, expected_text, i) ==
    IF i > Len(ocr) THEN 0
    ELSE LET later == LastMatch(ocr, expected_text, i + 1)
         IN  IF later # 0 THEN later
             ELSE IF Strip(ocr[i].text) = expected_text THEN i ELSE 0

\* The index of the first OCR entry, at or after i, whose stripped text is
\* the target; 0 when there is none.
RECURSIVE FirstMatch(_, _, _)
FirstMatch(ocr, expected_text, i) ==
    IF i > Len(ocr) THEN 0
    ELSE IF Strip(ocr[i].text) = expected_text THEN i
    ELSE FirstMatch(ocr, expected_text, i + 1)

tap_by_text(a, sess, expected_text, ocr) ==
    IF ~a.ok THEN Raised(a)
    ELSE IF ~DriverUp(sess, a.sid) THEN DriverDown
    ELSE LET shot == [e |-> "screenshot", sid |-> a.sid]
             i    == FirstMatch(ocr, expected_text, 1)
         IN  IF i = 0
             THEN [ok |-> FALSE, err |-> "NotFound", log |-> <<shot>>, ret |-> <<>>]
             ELSE [ok |-> TRUE, err |-> "",
                   log |-> <<shot, [e |-> "tap", sid |-> a.sid,
                                    x |-> PyIntHalf(ocr[i].left, ocr[i].width),
                                    y |-> PyIntHalf(ocr[i].top, ocr[i].height)]>>,
                   ret |-> <<TRUE>>]

\* Bounding boxes pytesseract reports.
Boxes == {[left |-> 10, top |-> 20, width |-> 5, height |-> 8],
          [left |-> 40, top |-> 0, width |-> 4, height |-> 3]}

OcrEntries == {[text |-> t, left |-> b.left, top |-> b.top,
                width |-> b.width, height |-> b.height] : t \in Texts, b \in Boxes}

\* OCR results of at most n entries.
OcrResults(n) == UNION {[1..k -> OcrEntries] : k \in 0..n}

TapByText ==
    \E dut_name \in DutNames, connOk \in BOOLEAN,
       expected_text \in {<<"A">>, <<" ", "A", "\n">>, <<>>} :
        LET a == start_appium_session(drivers, sessions, dut_name, connOk)
            r == tap_by_text(a, a.sessions, expected_text, screen.ocr)
        IN  Dispatch("tap_by_text", dut_name, connOk,
                     [expected_text |-> expected_text], a, r)

\* ---- verify_image_element / click_by_image -----------------------------
\* ${EXECDIR}/Resources/images: the reference images and their shapes.
RefImages == [f \in {"ok_button.png"} |-> [w |-> 31, h |-> 20]]

\* Best-match scores of cv2.matchTemplate and thresholds, in thousandths.
Scores == {799, 800, 850, 900}
Thresholds == {800, 850, 900}
\* Top-left corners of the best match (max_loc).
Locations == {<<0, 0>>, <<100, 240>>}

\* verify_image_element with max_val > threshold.
verify_image_element_strict(a, sess, image_name, threshold, max_val) ==
    IF ~a.ok THEN Raised(a)
    ELSE IF ~DriverUp(sess, a.sid) THEN DriverDown
    ELSE LET shot == [e |-> "screenshot", sid |-> a.sid]
         IN  IF image_name \notin DOMAIN RefImages
             THEN [ok |-> FALSE, err |-> "ImageError", log |-> <<shot>>, ret |-> <<>>]
             ELSE IF max_val > threshold
             THEN [ok |-> TRUE, err |-> "", log |-> <<shot>>, ret |-> <<TRUE>>]
             ELSE [ok |-> FALSE, err |-> "MatchBelowThreshold", log |-> <<shot>>,
                   ret |-> <<>>]

verify_image_element(a, sess, image_name, threshold, max_val) ==
    IF ~a.ok THEN Raised(a)
    ELSE IF ~DriverUp(sess, a.sid) THEN DriverDown
    ELSE LET shot == [e |-> "screenshot", sid |-> a.sid]
         IN  IF image_name \notin DOMAIN RefImages
             THEN [ok |-> FALSE, err |-> "ImageError", log |-> <<shot>>, ret |-> <<>>]
             ELSE IF max_val >= threshold
             THEN [ok |-> TRUE, err |-> "", log |-> <<shot>>, ret |-> <<TRUE>>]
             ELSE [ok |-> FALSE, err |-> "MatchBelowThreshold", log |-> <<shot>>,
                   ret |-> <<>>]

VerifyImageElement ==
    \E dut_name \in DutNames, connOk \in BOOLEAN,
       image_name \in {"ok_button.png", "gone.png"},
       threshold \in Thresholds :
        LET a == start_appium_session(drivers, sessions, dut_name, connOk)
            r == verify_image_element(a, a.sessions, image_name, threshold,
                                      screen.max_val)
        IN  Dispatch("verify_image_element", dut_name, connOk,
                     [image_name |-> image_name, threshold |-> threshold], a, r)

click_by_image(a, sess, image_name, threshold, max_val, max_loc) ==
    IF ~a.ok THEN Raised(a)
    ELSE IF ~DriverUp(sess, a.sid) THEN DriverDown
    ELSE LET shot == [e |-> "screenshot", sid |-> a.sid]
         IN  IF image_name \notin DOMAIN RefImages
             THEN [ok |-> FALSE, err |-> "ImageError", log |-> <<shot>>, ret |-> <<>>]
             ELSE IF max_val < threshold
             THEN [ok |-> FALSE, err |-> "MatchBelowThreshold", log |-> <<shot>>,
                   ret |-> <<>>]
             ELSE LET x == max_loc[1] + RefImages[image_name].w \div 2
                      y == max_loc[2] + RefImages[image_name].h \div 2
                  IN  [ok |-> TRUE, err |-> "",
                       log |-> <<shot, [e |-> "tap", sid |-> a.sid, x |-> x, y |-> y]>>,
                       ret |-> <<<<x, y>>>>]

ClickByImage ==
    \E dut_name \in DutNames, connOk \in BOOLEAN,
       image_name \in {"ok_button.png", "gone.png"},
       threshold \in Thresholds :
        LET a == start_appium_session(drivers, sessions, dut_name, connOk)
            r == click_by_image(a, a.sessions, image_name, threshold,
                                screen.max_val, screen.max_loc)
        IN  Dispatch("click_by_image", dut_name, connOk,
                     [image_name |-> image_name, threshold |-> threshold], a, r)

\* ---- run_command / press_key -------------------------------------------
\* Default of run_command's timeout_ms.
DefaultTimeoutMs == 5000

\* What "mobile: shell" hands back: a dict with or without stdout, or a string.
ShellResults == {[kind |-> k, stdout |-> t] :
                    k \in {"dict", "str"}, t \in {<<"A", "\n">>, <<>>}}
                \cup {[kind |-> "dict_no_stdout", stdout |-> <<>>]}

run_command(a, sess, command, timeout_ms, result) ==
    IF ~a.ok THEN Raised(a)
    ELSE LET parts == Split(command)
         IN  IF parts = <<>>
             THEN [ok |-> FALSE, err |-> "IndexError", log |-> <<>>, ret |-> <<>>]
             ELSE IF ~DriverUp(sess, a.sid) THEN DriverDown
             ELSE [ok |-> TRUE, err |-> "",
                   log |-> <<[e |-> "shell", sid |-> a.sid, command |-> Head(parts),
                              args |-> Tail(parts), timeout |-> timeout_ms]>>,
                   ret |-> <<Strip(result.stdout)>>]

RunCommand ==
    \E dut_name \in DutNames, connOk \in BOOLEAN,
       command \in {<<>>, <<" ">>, <<"l", "s">>, <<" ", "l", "s", " ", " ", "x">>},
       result \in ShellResults :
        LET a == start_appium_session(drivers, sessions, dut_name, connOk)
            r == run_command(a, a.sessions, command, DefaultTimeoutMs, result)
        IN  Dispatch("run_command", dut_name, connOk,
                     [command |-> command, result |-> result], a, r)

press_key(a, sess, keycode) ==
    IF ~a.ok THEN Raised(a)
    ELSE IF ~DriverUp(sess, a.sid) THEN DriverDown
    ELSE [ok |-> TRUE, err |-> "",
          log |-> <<[e |-> "shell", sid |-> a.sid, command |-> <<"input">>,
                     args |-> <<"keyevent", keycode>>]>>,
          ret |-> <<>>]

PressKey ==
    \E dut_name \in DutNames, connOk \in BOOLEAN, keycode \in {"3", "4"} :
        LET a == start_appium_session(drivers, sessions, dut_name, connOk)
            r == press_key(a, a.sessions, keycode)
        IN  Dispatch("press_key", dut_name, connOk, [keycode |-> keycode], a, r)

\* ---- swipe_left_right / scroll_top_bottom ------------------------------
\* Window sizes driver.get_window_size() reports.
WindowSizes == {[width |-> 1080, height |-> 1920], [width |-> 720, height |-> 1280]}

\* int(n * p / 100): the gesture box fractions, p in hundredths.
Fraction(n, p) == (n * p) \div 100

swipe_left_right(a, sess, direction, percent, size) ==
    IF ~a.ok THEN Raised(a)
    ELSE IF ~DriverUp(sess, a.sid) THEN DriverDown
    ELSE [ok |-> TRUE, err |-> "",
          log |-> <<[e |-> "window_size", sid |-> a.sid],
                    [e |-> "scroll", sid |-> a.sid, direction |-> direction,
                     percent |-> percent,
                     left |-> Fraction(size.width, 10),
                     top |-> Fraction(size.height, 35),
                     width |-> Fraction(size.width, 80),
                     height |-> Fraction(size.height, 30)]>>,
          ret |-> <<>>]

SwipeLeftRight ==
    \E dut_name \in DutNames, connOk \in BOOLEAN,
       direction \in {"left", "right"}, size \in WindowSizes :
        LET a == start_appium_session(drivers, sessions, dut_name, connOk)
            r == swipe_left_right(a, a.sessions, direction, 90, size)
        IN  Dispatch("swipe_left_right", dut_name, connOk,
                     [direction |-> direction, size |-> size], a, r)

scroll_top_bottom(a, sess, direction, percent, size) ==
    IF ~a.ok THEN Raised(a)
    ELSE IF ~DriverUp(sess, a.sid) THEN DriverDown
    ELSE [ok |-> TRUE, err |-> "",
          log |-> <<[e |-> "window_size", sid |-> a.sid],
                    [e |-> "scroll", sid |-> a.sid, direction |-> direction,
                     percent |-> percent,
                     left |-> Fraction(size.width, 10),
                     top |-> Fraction(size.height, 15),
                     width |-> Fraction(size.width, 80),
                     height |-> Fraction(size.height, 70)]>>,
          ret |-> <<>>]

ScrollTopBottom ==
    \E dut_name \in DutNames, connOk \in BOOLEAN,
       direction \in {"up", "down"}, size \in WindowSizes :
        LET a == start_appium_session(drivers, sessions, dut_name, connOk)
            r == scroll_top_bottom(a, a.sessions, direction, 90, size)
        IN  Dispatch("scroll_top_bottom", dut_name, connOk,
                     [direction |-> direction, size |-> size], a, r)

(***************************************************************************)
(* Screen recording.  procs are the adb processes this instance spawned,   *)
(* each "running" or "exited"; a pid is an index into procs.               *)
(***************************************************************************)
TestNames == {"login"}

RegistryUnchanged == UNCHANGED <<drivers, sessions, screen>>

\* start_screen_recording: the attributes and processes after the call.
\* spawnOk: whether subprocess.Popen finds and starts adb.
start_screen_recording(dut_name, test_name, spawnOk) ==
    LET conf == [e |-> "config", dut |-> dut_name]
        got  == get_device_id(dut_name)
        dev  == got.caps.device_id
        path == [dev |-> Value(dev), timestamp |-> now, test_name |-> test_name]
        pid  == Len(procs) + 1
        same == [screen_proc |-> screen_proc, device_video_path |-> device_video_path,
                 device_id |-> device_id, procs |-> procs]
    IN  IF ~got.ok
        THEN same @@ [ok |-> FALSE, err |-> got.err, log |-> <<conf>>, ret |-> <<>>]
        ELSE IF ~IsSet(dev)
        THEN same @@ [ok |-> FALSE, err |-> "TypeError", log |-> <<conf>>, ret |-> <<>>]
        ELSE IF ~spawnOk
        THEN same @@ [ok |-> FALSE, err |-> "OSError", log |-> <<conf>>, ret |-> <<>>]
        ELSE [screen_proc |-> <<pid>>, device_video_path |-> <<path>>,
              device_id |-> dev,
              procs |-> Append(procs, [dev |-> Value(dev), path |-> path,
                                       state |-> "running"]),
              ok |-> TRUE, err |-> "",
              log |-> <<conf, [e |-> "spawn", pid |-> pid, dev |-> Value(dev),
                               path |-> path]>>,
              ret |-> <<path>>]

StartScreenRecording ==
    \E dut_name \in DutNames, test_name \in TestNames, spawnOk \in BOOLEAN :
        LET r == start_screen_recording(dut_name, test_name, spawnOk)
        IN  /\ call = Idle
            /\ Len(r.procs) <= MaxProcs
            /\ screen_proc' = r.screen_proc
            /\ device_video_path' = r.device_video_path
            /\ device_id' = r.device_id
            /\ procs' = r.procs
            /\ call' = [kw |-> "start_screen_recording", dut |-> <<dut_name>>,
                        in |-> [test_name |-> test_name], log |-> r.log,
                        ok |-> r.ok, err |-> r.err, ret |-> r.ret]
            /\ start_called' = TRUE
            /\ UNCHANGED now
            /\ RegistryUnchanged

\* stop_screen_recording with the pull before the process is terminated
\* and waited for.
stop_screen_recording_pull_first(local_video_path, pullOk) ==
    IF ~IsSet(screen_proc)
    THEN [procs |-> procs, ok |-> FALSE, err |-> "AttributeError",
          log |-> <<>>, ret |-> <<>>]
    ELSE LET pid == Value(screen_proc)
         IN  [procs |-> [procs EXCEPT ![pid].state = "exited"],
              ok |-> pullOk, err |-> IF pullOk THEN "" ELSE "CalledProcessError",
              log |-> <<[e |-> "pull", dev |-> Value(device_id),
                         remote |-> Value(device_video_path),
                         local |-> local_video_path],
                        [e |-> "terminate", pid |-> pid],
                        [e |-> "wait", pid |-> pid]>>,
              ret |-> IF pullOk THEN <<local_video_path>> ELSE <<>>]

\* stop_screen_recording: the processes after the call and its effects.
\* pullOk: whether adb pull exits with status 0.
stop_screen_recording(local_video_path, pullOk) ==
    IF ~IsSet(screen_proc)
    THEN [procs |-> procs, ok |-> FALSE, err |-> "AttributeError",
          log |-> <<>>, ret |-> <<>>]
    ELSE LET pid == Value(screen_proc)
         IN  [procs |-> [procs EXCEPT ![pid].state = "exited"],
              ok |-> pullOk, err |-> IF pullOk THEN "" ELSE "CalledProcessError",
              log |-> <<[e |-> "terminate", pid |-> pid],
                        [e |-> "wait", pid |-> pid],
                        [e |-> "pull", dev |-> Value(device_id),
                         remote |-> Value(device_video_path),
                         local |-> local_video_path]>>,
              ret |-> IF pullOk THEN <<local_video_path>> ELSE <<>>]

StopScreenRecording ==
    \E dut_name \in DutNames, local_video_path \in {"out.mp4"}, pullOk \in BOOLEAN :
        LET r == stop_screen_recording(local_video_path, pullOk)
        IN  /\ call = Idle
            /\ procs' = r.procs
            /\ call' = [kw |-> "stop_screen_recording", dut |-> <<dut_name>>,
                        in |-> [local_video_path |-> local_video_path],
                        log |-> r.log, ok |-> r.ok, err |-> r.err, ret |-> r.ret]
            /\ UNCHANGED <<screen_proc, device_video_path, device_id, now,
                           start_called>>
            /\ RegistryUnchanged

\* The keyword returns to the test runner, which moves on to the next one.
Return ==
    /\ call # Idle
    /\ call' = Idle
    /\ UNCHANGED <<drivers, sessions, screen_proc, device_video_path, device_id,
                   procs, now, screen, start_called>>

\* Environment: a second passes on the wall clock (datetime.now()).
Tick ==
    /\ now < MaxTime
    /\ now' = now + 1
    /\ UNCHANGED <<drivers, sessions, screen_proc, device_video_path, device_id,
                   procs, screen, start_called, call>>

\* Environment: a recording ends by itself (screenrecord's time limit).
ProcExit ==
    \E pid \in DOMAIN procs :
        /\ procs[pid].state = "running"
        /\ procs' = [procs EXCEPT ![pid].state = "exited"]
        /\ UNCHANGED <<drivers, sessions, screen_proc, device_video_path,
                       device_id, now, screen, start_called, call>>

\* The instance __init__ leaves: an empty driver dict; _screen_proc,
\* _device_video_path and _device_id are not assigned; no keyword has run.
Fresh ==
    /\ drivers = <<>>
    /\ sessions = <<>>
    /\ screen_proc = Unset
    /\ device_video_path = Unset
    /\ device_id = Unset
    /\ procs = <<>>
    /\ now = 0
    /\ start_called = FALSE
    /\ call = Idle

\* A screen showing the target text twice, matched with score 0.85.
HomeScreen ==
    [ocr |-> <<[text |-> <<" ", "A", "\n">>, left |-> 10, top |-> 20,
                width |-> 5, height |-> 8],
               [text |-> <<"A">>, left |-> 40, top |-> 0, width |-> 4, height |-> 3]>>,
     max_val |-> 850, max_loc |-> <<100, 240>>]

Init == Fresh /\ screen = HomeScreen

\* Any OCR result of at most MaxOcr entries.
InitOcr ==
    /\ Fresh
    /\ \E ocr \in OcrResults(MaxOcr) : screen = [HomeScreen EXCEPT !.ocr = ocr]

\* Any best-match score and place.
InitMatch ==
    /\ Fresh
    /\ \E max_val \in Scores, max_loc \in Locations :
          screen = [HomeScreen EXCEPT !.max_val = max_val, !.max_loc = max_loc]

\* The session registry and the keywords that only talk to the driver.
NextRegistry ==
    \/ StartAppiumSession
    \/ StopAppiumSession
    \/ VerifyTextAppiumFull
    \/ PressKey
    \/ Return

SpecRegistry == Init /\ [][NextRegistry]_vars

\* OCR tap over every OCR result.
NextOcr ==
    \/ TapByText
    \/ StopAppiumSession
    \/ Return

SpecOcr == InitOcr /\ [][NextOcr]_vars

\* Image verification and click over every match, and the coordinate tap.
NextMatch ==
    \/ VerifyImageElement
    \/ ClickByImage
    \/ TapByCoordinates
    \/ StopAppiumSession
    \/ Return

SpecMatch == InitMatch /\ [][NextMatch]_vars

\* Screen recording and its environment.
NextRecording ==
    \/ StartScreenRecording
    \/ StopScreenRecording
    \/ Tick
    \/ ProcExit
    \/ Return

SpecRecording == Init /\ [][NextRecording]_vars

\* Every keyword that takes a DUT name.
NextDispatch ==
    \/ VerifyTextAppiumFull
    \/ TapByCoordinates
    \/ TapByText
    \/ VerifyImageElement
    \/ ClickByImage
    \/ RunCommand
    \/ PressKey
    \/ SwipeLeftRight
    \/ ScrollTopBottom
    \/ StartScreenRecording
    \/ StopScreenRecording
    \/ Return

SpecDispatch == Init /\ [][NextDispatch]_vars

\* The whole library.
Next ==
    \/ NextDispatch
    \/ StartAppiumSession
    \/ StopAppiumSession
    \/ Tick
    \/ ProcExit
    \/ Return

Spec == Init /\ [][Next]_vars

(***************************************************************************)
(* Vocabulary of the properties.                                           *)
(***************************************************************************)
\* The events of one kind in a keyword's log, in order.
Events(log, kind) == SelectSeq(log, LAMBDA ev : ev.e = kind)

\* Events that are calls on a driver; each names the session it used.
DriverEvents == {"find_elements", "tap", "screenshot", "shell", "window_size", "scroll"}
DriverCalls(log) == SelectSeq(log, LAMBDA ev : ev.e \in DriverEvents)

\* The keywords whose first statement is start_appium_session(dut_name).
AcquiringKeywords ==
    {"start_appium_session", "verify_text_appium_full", "tap_by_coordinates",
     "tap_by_text", "verify_image_element", "click_by_image", "run_command",
     "press_key", "swipe_left_right", "scroll_top_bottom"}

\* This step is a keyword call (and call' is its record).
KeywordStep == call = Idle /\ call' # Idle

\* This step is a request for dut_name's session.
Requests(dut_name) ==
    KeywordStep /\ call'.kw \in AcquiringKeywords /\ call'.dut = <<dut_name>>

\* The sessions opened for dut_name that the server still holds.
LiveSessions(dut_name) ==
    {s \in DOMAIN sessions : sessions[s].name = dut_name /\ sessions[s].state = "live"}

\* C1, in every state: a DUT name has at most one entry in the cache and at
\* most one live session, and a live session of a name is the cached one.
OneSessionPerName ==
    \A n \in DutNames :
        /\ Cardinality({i \in DOMAIN drivers : drivers[i].name = n}) <= 1
        /\ Cardinality(LiveSessions(n)) <= 1
        /\ \A s \in LiveSessions(n) : InCache(drivers, n) /\ CachedSid(drivers, n) = s

\* C1, in every step: a request for a name that is in the cache leaves the
\* cache and the server's sessions as they are, opens no connection, and
\* returns and uses the cached session.
ReusesCachedSession ==
    \A n \in DutNames :
        (Requests(n) /\ InCache(drivers, n)) =>
            /\ drivers' = drivers
            /\ sessions' = sessions
            /\ Events(call'.log, "connect") = <<>>
            /\ call'.kw = "start_appium_session" =>
                  (call'.ok /\ call'.ret = <<CachedSid(drivers, n)>>)
            /\ \A i \in DOMAIN DriverCalls(call'.log) :
                  DriverCalls(call'.log)[i].sid = CachedSid(drivers, n)

\* C1: a logical device name maps to at most one live session, and every
\* request for a name after its first successful creation (no successful
\* stop_appium_session in between) returns the identical session and opens
\* no further driver connection.
C1_OneSessionReused == []OneSessionPerName /\ [][ReusesCachedSession]_vars

\* C1 witness: start_appium_session answered from the cache.
C1_Witness ==
    /\ call.kw = "start_appium_session"
    /\ call.ok
    /\ call.log = <<[e |-> "registry", dut |-> "Phone"]>>
    /\ call.ret = <<CachedSid(drivers, "Phone")>>
\* C2: a request for a name without a DUT.<name> section fails with the
\* config-not-found error, attempts no driver connection and makes no
\* driver call, and leaves the cache as it was, without an entry for the name.
C2_UnknownDutFailsEarly ==
    [][\A n \in DutNames :
        (Requests(n) /\ Section(n) \notin DOMAIN config) =>
            /\ ~call'.ok
            /\ call'.err = "ConfigNotFound"
            /\ Events(call'.log, "connect") = <<>>
            /\ DriverCalls(call'.log) = <<>>
            /\ drivers' = drivers
            /\ sessions' = sessions
            /\ ~InCache(drivers', n)]_vars

\* C2 witness: the request for the unconfigured name failed while another
\* name was cached.
C2_Witness ==
    /\ call.kw = "start_appium_session"
    /\ call.dut = <<"Ghost">>
    /\ call.err = "ConfigNotFound"
    /\ InCache(drivers, "Phone")

\* The quit events a log holds for one session.
QuitsOf(log, sid) == SelectSeq(log, LAMBDA ev : ev.e = "quit" /\ ev.sid = sid)

\* C3: when stop_appium_session completes without a failure, that call has
\* told every cached session to quit exactly once (and nothing else), the
\* server has closed them and the cache is empty; and a request that caches
\* a name that was not cached (every name, after such a stop) returns a
\* session that did not exist before, is live and was opened by a new
\* connection.
C3_StopThenFresh ==
    [][/\ (KeywordStep /\ call'.kw = "stop_appium_session" /\ call'.ok) =>
            /\ drivers' = <<>>
            /\ Len(call'.log) = Len(drivers)
            /\ \A i \in DOMAIN drivers :
                  /\ Len(QuitsOf(call'.log, drivers[i].sid)) = 1
                  /\ sessions'[drivers[i].sid].state = "quit"
       /\ \A n \in DutNames :
            (Requests(n) /\ ~InCache(drivers, n) /\ InCache(drivers', n)) =>
                LET sid == CachedSid(drivers', n)
                IN  /\ sid \notin DOMAIN sessions
                    /\ sessions'[sid] = [name |-> n, state |-> "live"]
                    /\ Len(Events(call'.log, "connect")) = 1
                    /\ call'.kw = "start_appium_session" => call'.ret = <<sid>>
                    /\ \A i \in DOMAIN DriverCalls(call'.log) :
                          DriverCalls(call'.log)[i].sid = sid]_vars

\* C3 witness: after a stop that quit Phone's session and emptied the
\* cache, start_appium_session returned a new live session for Phone.
C3_Witness ==
    /\ call.kw = "start_appium_session"
    /\ call.dut = <<"Phone">>
    /\ call.ok
    /\ \E s \in DOMAIN sessions :
          /\ sessions[s] = [name |-> "Phone", state |-> "quit"]
          /\ call.ret = <<s + 1>>
          /\ sessions[s + 1] = [name |-> "Phone", state |-> "live"]

\* C10: when a quit fails during stop_appium_session, the failure
\* propagates, the quits issued are those of the cached sessions up to the
\* failing one in cache order, no later cached session is touched, and the
\* cache is exactly as before the call; and a request for a cached name
\* whose session was terminated returns that terminated session and opens
\* no new one.
C10_FailedStopKeepsCache ==
    [][/\ (KeywordStep /\ call'.kw = "stop_appium_session" /\ ~call'.ok) =>
            LET k == Len(call'.log)
            IN  /\ call'.err = "DriverError"
                /\ drivers' = drivers
                /\ k \in 1..Len(drivers)
                /\ \A i \in 1..k : call'.log[i] = [e |-> "quit", sid |-> drivers[i].sid]
                /\ \A i \in 1..(k - 1) : sessions'[drivers[i].sid].state = "quit"
                /\ \A i \in (k + 1)..Len(drivers) :
                      sessions'[drivers[i].sid] = sessions[drivers[i].sid]
       /\ \A n \in DutNames :
            (/\ Requests(n)
             /\ InCache(drivers, n)
             /\ sessions[CachedSid(drivers, n)].state = "quit") =>
                /\ drivers' = drivers
                /\ sessions' = sessions
                /\ Events(call'.log, "connect") = <<>>
                /\ call'.kw = "start_appium_session" =>
                      (call'.ok /\ call'.ret = <<CachedSid(drivers, n)>>)]_vars

\* C10 witness: the second quit of a stop failed, and start_appium_session
\* then returned the first name's session, which that stop had terminated,
\* while the second name's session is still live and cached.
C10_Witness ==
    /\ call.kw = "start_appium_session"
    /\ call.ok
    /\ Len(drivers) = 2
    /\ call.dut = <<drivers[1].name>>
    /\ call.ret = <<drivers[1].sid>>
    /\ sessions[drivers[1].sid].state = "quit"
    /\ sessions[drivers[2].sid].state = "live"
\* The keyword got a match score: it took its screenshot and the reference
\* image exists.
Compared ==
    /\ Events(call.log, "screenshot") # <<>>
    /\ call.in.image_name \in DOMAIN RefImages

\* C4: for every score s and threshold t, verify_image_element succeeds iff
\* s >= t and otherwise fails with the match-below-threshold error;
\* click_by_image issues its tap (one) iff s >= t and none when s < t.
C4_ThresholdCompare ==
    /\ call.kw = "verify_image_element" =>
          IF Compared
          THEN /\ call.ok <=> screen.max_val >= call.in.threshold
               /\ call.ok => call.ret = <<TRUE>>
               /\ ~call.ok => call.err = "MatchBelowThreshold"
          ELSE ~call.ok
    /\ call.kw = "click_by_image" =>
          IF Compared
          THEN /\ Len(Events(call.log, "tap")) = 1 <=> screen.max_val >= call.in.threshold
               /\ screen.max_val < call.in.threshold =>
                     /\ Events(call.log, "tap") = <<>>
                     /\ ~call.ok
                     /\ call.err = "MatchBelowThreshold"
          ELSE Events(call.log, "tap") = <<>> /\ ~call.ok

\* C4 witness: verify_image_element succeeded with the score equal to the
\* threshold.
C4_Witness ==
    /\ call.kw = "verify_image_element"
    /\ call.ok
    /\ screen.max_val = call.in.threshold

\* s is t without its leading and trailing whitespace.
IsTrimOf(s, t) ==
    \E i \in 1..(Len(t) + 1) : \E j \in (i - 1)..Len(t) :
        /\ s = SubSeq(t, i, j)
        /\ \A k \in 1..(i - 1) : IsSpace(t[k])
        /\ \A k \in (j + 1)..Len(t) : IsSpace(t[k])
        /\ s # <<>> => (~IsSpace(s[1]) /\ ~IsSpace(s[Len(s)]))

\* The OCR entries whose trimmed text is the target.
Matches(ocr, target) == {i \in DOMAIN ocr : IsTrimOf(target, ocr[i].text)}

\* The pixel (x, y) holds the centre of the entry's bounding box.
AtCentre(x, y, entry) ==
    /\ 2 * x <= 2 * entry.left + entry.width
    /\ 2 * entry.left + entry.width < 2 * x + 2
    /\ 2 * y <= 2 * entry.top + entry.height
    /\ 2 * entry.top + entry.height < 2 * y + 2

\* C5: for every OCR result, tap_by_text issues exactly one tap, at the
\* centre of the box of the first entry whose trimmed text equals the
\* target, whatever matches follow; with no such entry it fails with the
\* not-found error and issues no tap.
C5_FirstOcrMatchTapped ==
    call.kw = "tap_by_text" =>
        LET taps == Events(call.log, "tap")
            M    == Matches(screen.ocr, call.in.expected_text)
        IN  IF Events(call.log, "screenshot") = <<>>
            THEN taps = <<>> /\ ~call.ok
            ELSE IF M = {}
            THEN ~call.ok /\ call.err = "NotFound" /\ taps = <<>>
            ELSE LET first == CHOOSE m \in M : \A o \in M : m <= o
                 IN  /\ call.ok
                     /\ Len(taps) = 1
                     /\ AtCentre(taps[1].x, taps[1].y, screen.ocr[first])

\* C5 witness: two entries match, in different boxes, and the tap went to
\* the first one.
C5_Witness ==
    /\ call.kw = "tap_by_text"
    /\ call.ok
    /\ Matches(screen.ocr, call.in.expected_text) = {1, 2}
    /\ LET tap == Events(call.log, "tap")[1]
       IN  /\ ~AtCentre(tap.x, tap.y, screen.ocr[2])
           /\ AtCentre(tap.x, tap.y, screen.ocr[1])

\* The DUT's session is cached and the server still holds it.
SessionUsable(dut_name) ==
    /\ InCache(drivers, dut_name)
    /\ sessions[CachedSid(drivers, dut_name)].state = "live"

\* C6: a tap_by_coordinates call with a missing file or a missing key fails
\* and issues no tap; every tap it issues is at exactly the (x, y) stored
\* under the key, never at a default; and with file, key and a usable
\* session it issues that one tap.
C6_CoordinateTap ==
    call.kw = "tap_by_coordinates" =>
        LET f    == call.in.json_name
            k    == call.in.key_name
            taps == Events(call.log, "tap")
            has  == f \in DOMAIN CoordFiles /\ k \in DOMAIN CoordFiles[f]
        IN  /\ ~has => (~call.ok /\ taps = <<>>)
            /\ \A i \in DOMAIN taps :
                  /\ has
                  /\ 10 * taps[i].x = CoordFiles[f][k].x
                  /\ 10 * taps[i].y = CoordFiles[f][k].y
            /\ (/\ has
                /\ {"x", "y"} \subseteq DOMAIN CoordFiles[f][k]
                /\ SessionUsable(call.dut[1])) => (call.ok /\ Len(taps) = 1)

\* C6 witness: the tap for login_button of home.json went to (100, 200).
C6_Witness ==
    /\ call.kw = "tap_by_coordinates"
    /\ call.in = [json_name |-> "home.json", key_name |-> "login_button"]
    /\ call.ok
    /\ Events(call.log, "tap") = <<[e |-> "tap", sid |-> 1, x |-> 100, y |-> 200]>>
\* The two screen-recording keywords.
RecordingKeywords == {"start_screen_recording", "stop_screen_recording"}

\* The keywords C7 lists: every dispatcher action that takes a device name.
DeviceKeywords == (AcquiringKeywords \ {"start_appium_session"}) \cup RecordingKeywords

\* The keyword's first effect is the registry's lookup of its DUT name.
AcquiresFirst ==
    /\ call.log # <<>>
    /\ call.log[1] = [e |-> "registry", dut |-> call.dut[1]]

\* Effects on the device, the driver or an external process.
ExternalEvents == DriverEvents \cup {"connect", "spawn", "terminate", "wait", "pull"}

\* C7 as claimed: every dispatcher action that takes a device name,
\* start_screen_recording and stop_screen_recording included, has asked the
\* registry for its session before each effect it has on the device, the
\* driver or an external process.
C7_Original ==
    call.kw \in DeviceKeywords =>
        \A i \in DOMAIN call.log :
            call.log[i].e \in ExternalEvents =>
                \E j \in 1..(i - 1) : call.log[j] = [e |-> "registry", dut |-> call.dut[1]]

\* C7 as amended: every dispatcher action that takes a device name, except
\* start_screen_recording and stop_screen_recording, acquires its session
\* from the registry before any other effect, and its driver calls follow;
\* the two recording keywords never ask the registry: start only reads the
\* DUT's configuration section before it spawns adb, stop reads neither.
C7_AcquireFirstExceptRecording ==
    /\ call.kw \in (DeviceKeywords \ RecordingKeywords) =>
          /\ AcquiresFirst
          /\ \A i \in DOMAIN call.log :
                call.log[i].e \in DriverEvents => i > 1
    /\ call.kw \in RecordingKeywords =>
          /\ Events(call.log, "registry") = <<>>
          /\ Events(call.log, "connect") = <<>>
    /\ call.kw = "start_screen_recording" =>
          call.log[1] = [e |-> "config", dut |-> call.dut[1]]
    /\ call.kw = "stop_screen_recording" =>
          Events(call.log, "config") = <<>>

\* C7 witness: press_key asked the registry, then sent its shell command.
C7_Witness ==
    /\ call.kw = "press_key"
    /\ call.ok
    /\ Len(call.log) >= 2
    /\ call.log[1].e = "registry"
    /\ call.log[Len(call.log)].e = "shell"

\* The recording processes of this instance that are running.
Running == {p \in DOMAIN procs : procs[p].state = "running"}

\* C8: at most one recording process spawned by the instance is active at
\* any time.
C8_AtMostOneRecording == Cardinality(Running) <= 1

\* What stop_screen_recording does to the process pid and the file path:
\* terminate, wait until it has exited, then pull path.
StopsAndPulls(pid, dev, path) ==
    /\ Len(call.log) = 3
    /\ call.log[1] = [e |-> "terminate", pid |-> pid]
    /\ call.log[2] = [e |-> "wait", pid |-> pid]
    /\ call.log[3] = [e |-> "pull", dev |-> dev, remote |-> path,
                      local |-> call.in.local_video_path]
    /\ procs[pid].state = "exited"

\* C9 as claimed: stop_screen_recording fails without a pull if
\* start_screen_recording was never called; otherwise it terminates the
\* recording process, waits for its exit and then pulls the remote file.
C9_Original ==
    call.kw = "stop_screen_recording" =>
        IF ~start_called
        THEN ~call.ok /\ Events(call.log, "pull") = <<>>
        ELSE /\ IsSet(screen_proc)
             /\ StopsAndPulls(Value(screen_proc), Value(device_id),
                              Value(device_video_path))

\* C9 as amended: stop_screen_recording fails, without terminating or
\* pulling anything, if no start_screen_recording call has completed (none
\* has spawned a process); otherwise it terminates the process of the most
\* recent start that completed, waits until it has exited, and only then
\* pulls that start's remote file from that start's device.
C9_StopAfterCompletedStart ==
    call.kw = "stop_screen_recording" =>
        IF procs = <<>>
        THEN ~call.ok /\ call.log = <<>>
        ELSE /\ StopsAndPulls(Len(procs), procs[Len(procs)].dev, procs[Len(procs)].path)
             /\ call.ok => call.ret = <<call.in.local_video_path>>

\* C9 witness: after two completed starts with different remote files, stop
\* pulled the second one's.
C9_Witness ==
    /\ call.kw = "stop_screen_recording"
    /\ call.ok
    /\ Len(procs) = 2
    /\ procs[1].path # procs[2].path
    /\ call.log[3].remote = procs[2].path
====
